---- MODULE Spec2Model ----
(***************************************************************************)
(* foto4lb.py: shrink photos for a logbook.  main() probes for the         *)
(* external tool, scans the requested directories, creates one output      *)
(* directory per scanned directory and maps processfile over all files on  *)
(* a ThreadPoolExecutor, logging one line per result.                      *)
(*                                                                         *)
(* File names are sequences of one-character strings so that lower() and   *)
(* endswith() are computed, and a joined path is the tuple of its parts.   *)
(***************************************************************************)
EXTENDS Integers, Sequences, FiniteSets, TLC

\* ---------------------------------------------------------------- bounds
\* Longest list of positional path arguments.
MaxPaths == 3
\* Most entries the directories hold together.
MaxEntries == 3
\* os.cpu_count() of the host: max_workers of the pool.
PoolSize == 2
\* Runs of main() with the same arguments on the same file system.
MaxRuns == 2
\* Most tags of the metadata map of the one photo of the metadata runs.
MaxTags == 2
\* Most entries of the directories together when only scan and dispatch run.
MaxScanEntries == 5

\* Directories that may be named on the command line.
Dirs == {"a", "b"}

\* ------------------------------------------------------ program constants
outdir == "foto4lb"

extensions ==
    { <<".", "j", "p", "g">>, <<".", "j", "p", "e", "g">>, <<".", "r", "a", "w">> }

\* Status values of the 2-tuple processfile returns.
StatusOk == 0
StatusNotImage == 1
StatusToolError == 2

\* Return value checkfor('mogrify', rv=1) expects from the probe.
ProbeRv == 1

\* ---------------------------------------------------------- pure helpers
UpperToLower ==
    [A |-> "a", B |-> "b", C |-> "c", D |-> "d", E |-> "e", F |-> "f", G |-> "g",
     H |-> "h", I |-> "i", J |-> "j", K |-> "k", L |-> "l", M |-> "m", N |-> "n",
     O |-> "o", P |-> "p", Q |-> "q", R |-> "r", S |-> "s", T |-> "t", U |-> "u",
     V |-> "v", W |-> "w", X |-> "x", Y |-> "y", Z |-> "z"]

\* str.lower(), character by character.
lower(s) ==
    [k \in 1..Len(s) |-> IF s[k] \in DOMAIN UpperToLower THEN UpperToLower[s[k]] ELSE s[k]]

\* str.endswith(tuple): some member of sufs is a suffix of s.
endswith(s, sufs) ==
    \E suf \in sufs :
        /\ Len(s) >= Len(suf)
        /\ SubSeq(s, Len(s) - Len(suf) + 1, Len(s)) = suf

\* The filter of the list comprehension over scandir(path).
Accepted(e) == e.isFile /\ endswith(lower(e.name), extensions)

\* fname = sep.join([path, name])
fnameOf(path, name) == <<path, name>>

\* oname = sep.join([path, outdir, name.lower()])
onameOf(path, name) == <<path, outdir, lower(name)>>

\* ------------------------------------------- the timestamp of processfile
\* Characters in code point order (the part of ASCII the model's strings use).
Alphabet ==
    <<" ", "0", "1", "2", "3", "4", "5", "6", "7", "8", "9", ":", "A", "B", "C", "D", "E", "F", "G", "H", "I", "J", "K", "L", "M", "N", "O", "P", "Q", "R", "S", "T">>
    \o <<"U", "V", "W", "X", "Y", "Z", "a", "b", "c", "d", "e", "f", "g", "h", "i", "j", "k", "l", "m", "n", "o", "p", "q", "r", "s", "t", "u", "v", "w", "x", "y", "z">>

\* ord(c), up to an order-preserving renumbering.
ord(c) == CHOOSE k \in 1..Len(Alphabet) : Alphabet[k] = c

\* s < t on str: the first differing character decides, a proper prefix is smaller.
StrLess(s, t) ==
    \E k \in 1..(Len(t)) :
        /\ \A j \in 1..(k - 1) : j <= Len(s) /\ s[j] = t[j]
        /\ \/ k = Len(s) + 1
           \/ k <= Len(s) /\ ord(s[k]) < ord(t[k])

TagDateTime == "DateTime"
TagDateTimeOriginal == "DateTimeOriginal"
TagCreateDate == "CreateDate"
TagDateTimeDigitized == "DateTimeDigitized"
TagMake == "Make"

\* The characters of the strings metadata is made of.
chars(s) ==
    CASE s = "DateTime" -> <<"D", "a", "t", "e", "T", "i", "m", "e">>
      [] s = "DateTimeOriginal" -> <<"D", "a", "t", "e", "T", "i", "m", "e", "O", "r", "i", "g", "i", "n", "a", "l">>
      [] s = "CreateDate" -> <<"C", "r", "e", "a", "t", "e", "D", "a", "t", "e">>
      [] s = "DateTimeDigitized" -> <<"D", "a", "t", "e", "T", "i", "m", "e", "D", "i", "g", "i", "t", "i", "z", "e", "d">>
      [] s = "Make" -> <<"M", "a", "k", "e">>
      [] s = "2016:04:03 11:22:33" -> <<"2", "0", "1", "6", ":", "0", "4", ":", "0", "3", " ", "1", "1", ":", "2", "2", ":", "3", "3">>
      [] s = "2017:12:31 23:59:58" -> <<"2", "0", "1", "7", ":", "1", "2", ":", "3", "1", " ", "2", "3", ":", "5", "9", ":", "5", "8">>
      [] s = "2016:13:03 11:22:33" -> <<"2", "0", "1", "6", ":", "1", "3", ":", "0", "3", " ", "1", "1", ":", "2", "2", ":", "3", "3">>
      [] s = "" -> <<>>

\* Mutant of sorted: the names in descending order.
RECURSIVE sortedDescending(_)
sortedDescending(S) ==
    IF S = {} THEN <<>>
    ELSE LET m == CHOOSE x \in S : \A y \in S : x = y \/ StrLess(chars(y), chars(x))
         IN  <<m>> \o sortedDescending(S \ {m})

\* sorted(list(S)) for a set of str.
RECURSIVE sorted(_)
sorted(S) ==
    IF S = {} THEN <<>>
    ELSE LET m == CHOOSE x \in S : \A y \in S : x = y \/ StrLess(chars(x), chars(y))
         IN  <<m>> \o sorted(S \ {m})

\* want = set(['DateTime', 'DateTimeOriginal', 'CreateDate', 'DateTimeDigitized'])
want == {TagDateTime, TagDateTimeOriginal, TagCreateDate, TagDateTimeDigitized}

\* str.replace(a, b) for single characters.
replace(s, a, b) == [k \in 1..Len(s) |-> IF s[k] = a THEN b ELSE s[k]]

\* str.split(sep) for a single character sep: the pieces between the places
\* where sep stands.
split(s, sep) ==
    LET P == {k \in 1..Len(s) : s[k] = sep}
        at(j) == IF j = 0 THEN 0
                 ELSE IF j = Cardinality(P) + 1 THEN Len(s) + 1
                 ELSE CHOOSE k \in P : Cardinality({h \in P : h < k}) = j - 1
    IN  [j \in 1..(Cardinality(P) + 1) |-> SubSeq(s, at(j - 1) + 1, at(j) - 1)]

Digits == <<"0", "1", "2", "3", "4", "5", "6", "7", "8", "9">>

IsNumber(f) == Len(f) > 0 /\ \A k \in 1..Len(f) : \E d \in 1..10 : Digits[d] = f[k]

\* int(f) for a string of decimal digits.
int(f) ==
    LET val[k \in 0..Len(f)] ==
            IF k = 0 THEN 0
            ELSE 10 * val[k - 1] + (CHOOSE d \in 0..9 : Digits[d + 1] = f[k])
    IN  val[Len(f)]

IsLeap(y) == (y % 4 = 0 /\ y % 100 # 0) \/ y % 400 = 0

DaysIn(y, m) ==
    IF m = 2 THEN (IF IsLeap(y) THEN 29 ELSE 28)
    ELSE IF m \in {4, 6, 9, 11} THEN 30 ELSE 31

\* The arguments datetime(...) accepts; others raise ValueError.
ValidDate(y, m, d, h, mi, sec) ==
    /\ y \in 1..9999
    /\ m \in 1..12
    /\ d \in 1..DaysIn(y, m)
    /\ h \in 0..23
    /\ mi \in 0..59
    /\ sec \in 0..59

\* set(ld.keys()) of a metadata map given as its (key, value) items in order.
Keys(ld) == {ld[k][1] : k \in 1..Len(ld)}

\* ld[key]
Lookup(ld, key) == ld[CHOOSE k \in 1..Len(ld) : ld[k][1] = key][2]

\* available = sorted(list(want.intersection(set(ld.keys()))))
available(ld) == sorted(want \cap Keys(ld))

\* available[0]: the tag whose value is parsed (IndexError when there is none).
Selected(ld) == available(ld)[1]

\* fields = ld[available[0]].replace(' ', ':').split(':')
fieldsOf(value) == split(replace(chars(value.text), " ", ":"), ":")

\* dt = datetime(int(fields[0]), ..., int(fields[5])) as the try block computes
\* it, with microsecond 0, or <<>> where the block raises: the image does not
\* open, it has no EXIF data, no wanted tag is there, the value of the selected
\* tag is no str, has fewer than six fields or a field that is no number, or the
\* numbers are no valid date.
ParsedDate(meta) ==
    IF meta.kind # "exif" THEN <<>>
    ELSE LET av == available(meta.ld) IN
         IF av = <<>> THEN <<>>
         ELSE LET v == Lookup(meta.ld, av[1]) IN
              IF ~v.isStr THEN <<>>
              ELSE LET f == fieldsOf(v) IN
                   IF Len(f) < 6 \/ \E k \in 1..6 : ~IsNumber(f[k]) THEN <<>>
                   ELSE LET n == [k \in 1..6 |-> int(f[k])] IN
                        IF ValidDate(n[1], n[2], n[3], n[4], n[5], n[6])
                           THEN n \o <<0>>
                           ELSE <<>>

\* The try block runs to its end.
TryOk(meta) == ParsedDate(meta) # <<>>

\* mktime((dt.year, dt.month, dt.day, dt.hour, dt.minute, dt.second, 0, 0, -1)):
\* a time in whole seconds, written as the local date and time it stands for.
mktime(dt) == <<dt[1], dt[2], dt[3], dt[4], dt[5], dt[6]>>

\* ------------------------------------------------------------ environment
\* Tag values: two well-formed dates, a date datetime() rejects, and a value
\* that is no str (it has no replace method).
DateA == [isStr |-> TRUE, text |-> "2016:04:03 11:22:33"]
DateB == [isStr |-> TRUE, text |-> "2017:12:31 23:59:58"]
DateBad == [isStr |-> TRUE, text |-> "2016:13:03 11:22:33"]
NotStr == [isStr |-> FALSE, text |-> ""]

\* What the try block meets: Image.open raises, _getexif() returns None, or the
\* decoded items of the EXIF data in their order.
Unreadable == [kind |-> "unreadable", ld |-> <<>>]
NoExif == [kind |-> "noexif", ld |-> <<>>]
Exif(ld) == [kind |-> "exif", ld |-> ld]

\* Directory entries the file system may hold: name, whether it is a regular
\* file, whether its content is an image that Image.open can decode, and the
\* EXIF items of that image.
EntryUniverse ==
    { [name |-> <<"A", ".", "J", "P", "G">>, isFile |-> TRUE, image |-> TRUE,
       meta |-> Exif(<< <<TagDateTimeOriginal, DateA>>, <<TagDateTime, DateB>> >>)],
      [name |-> <<"a", ".", "j", "p", "g">>, isFile |-> TRUE, image |-> FALSE,
       meta |-> Unreadable],
      [name |-> <<"b", ".", "j", "p", "e", "g">>, isFile |-> TRUE, image |-> TRUE,
       meta |-> Exif(<< <<TagMake, NotStr>>, <<TagDateTimeDigitized, DateB>> >>)],
      [name |-> <<"n", ".", "p", "n", "g">>, isFile |-> TRUE, image |-> TRUE,
       meta |-> NoExif],
      [name |-> <<"s", ".", "r", "a", "w">>, isFile |-> FALSE, image |-> FALSE,
       meta |-> Unreadable] }

\* The file systems considered: what each directory holds, MaxEntries entries in all.
FileSystems ==
    {[d \in Dirs |-> {e \in EntryUniverse : <<d, e>> \in S}] :
        S \in {T \in SUBSET (Dirs \X EntryUniverse) : Cardinality(T) <= MaxEntries}}

\* All orders in which scandir may deliver the members of S.
Orders(S) ==
    {s \in [1..Cardinality(S) -> S] : \A i, j \in 1..Cardinality(S) : i # j => s[i] # s[j]}

\* The file systems considered when only scan and dispatch run.
ScanFileSystems ==
    {[d \in Dirs |-> {e \in EntryUniverse : <<d, e>> \in S}] :
        S \in {T \in SUBSET (Dirs \X EntryUniverse) : Cardinality(T) <= MaxScanEntries}}

\* Metadata maps of the photo of the metadata runs: up to MaxTags items with
\* distinct keys, in any order.
TagValues == {DateA, DateB, DateBad, NotStr}

MetaMaps ==
    UNION {{l \in [1..n -> (want \cup {TagMake}) \X TagValues] :
               \A i, j \in 1..n : i # j => l[i][1] # l[j][1]} : n \in 0..MaxTags}

MetaInputs == {Unreadable, NoExif} \cup {Exif(l) : l \in MetaMaps}

\* A photo named A.JPG with the given metadata.
Photo(m) ==
    [name |-> <<"A", ".", "J", "P", "G">>, isFile |-> TRUE,
     image |-> m.kind # "unreadable", meta |-> m]

\* Every metadata the model hands to processfile, and the outcome of the try
\* block on each, computed once.
Metas == MetaInputs \cup {e.meta : e \in EntryUniverse}

ParsedDates == [m \in Metas |-> ParsedDate(m)]

\* Mutant of ResolveDt: the except branch takes a fixed date, not the clock.
ResolveDtEpoch(meta, today) ==
    IF ParsedDates[meta] = <<>> THEN <<1970, 1, 1, 0, 0, 0, 0>> ELSE ParsedDates[meta]

\* dt as processfile has it at line 151: the date of the selected tag, or
\* datetime.today() (with its microseconds) from the except branch.
ResolveDt(meta, today) ==
    IF ParsedDates[meta] = <<>> THEN today ELSE ParsedDates[meta]

\* datetime.today() at clock tick n: a tick is half a second.
TodayAt(n) == <<2018, 7, 7, 18, 49, n \div 2, (n % 2) * 500000>>

PathLists == UNION {[1..n -> Dirs] : n \in 0..MaxPaths}

Named(paths) == {paths[k] : k \in 1..Len(paths)}

VARIABLES
    argpath,      \* args.path
    content,      \* directory -> its entries
    outdirs,      \* directories in which path/foto4lb exists
    made,         \* directories whose path/foto4lb this run created
    probe,        \* exit code of running 'mogrify'; -1 when the call raises OSError
    convertOk,    \* whether the 'convert' binary can be executed
    pc,           \* position of main()
    exc,          \* how main() ended: "none", "SystemExit0", "SystemExit1", an exception
    idx,          \* index of the running for loop (scan, mkdir, result iteration)
    pairs,        \* list of (path, files)
    count,        \* number of files found
    items,        \* the work items, in submission order
    work,         \* per item: the state of its future / its processfile call
    completed,    \* item indices in the order their processfile calls ended
    written,      \* output paths handed to convert
    stamped,      \* output paths whose times utime() has set
    log,          \* the result lines logged, in order
    clock,        \* the wall clock a call of processfile finds, in ticks
    times,        \* output path -> the access and modification time utime() gave it
    run           \* number of the current run of main()

vars == <<argpath, content, outdirs, made, probe, convertOk, pc, exc, idx, pairs,
          count, items, work, completed, written, stamped, log, clock, times, run>>

env == <<argpath, content, probe, convertOk>>

\* A run that the probe ends never looks at a directory: the directories of
\* such a run are taken to be empty.
Init ==
    /\ argpath \in PathLists
    /\ content \in FileSystems
    /\ \A d \in Dirs \ Named(argpath) : content[d] = {}
    /\ outdirs \in SUBSET Named(argpath)
    /\ made = {}
    /\ probe \in {-1, 0, ProbeRv}
    /\ probe # ProbeRv => outdirs = {} /\ \A d \in Dirs : content[d] = {}
    /\ convertOk \in BOOLEAN
    /\ pc = "parse"
    /\ exc = "none"
    /\ idx = 1
    /\ pairs = <<>>
    /\ count = 0
    /\ items = <<>>
    /\ work = <<>>
    /\ completed = <<>>
    /\ written = {}
    /\ stamped = {}
    /\ log = <<>>
    /\ clock = 0
    /\ times = <<>>
    /\ run = 1

\* --------------------------------------------------------------- main()
\* if not args.path: print_help(); sys.exit(0)
ParseArgs ==
    /\ pc = "parse"
    /\ IF Len(argpath) = 0
          THEN pc' = "done" /\ exc' = "SystemExit0"
          ELSE pc' = "checkfor" /\ exc' = exc
    /\ UNCHANGED <<env, clock, times, run, outdirs, made, idx, pairs, count,
                   items, work, completed,
                   written, stamped, log>>

\* checkfor('mogrify', rv=1): the call did not raise OSError and rc == rv.
checkforPasses == probe # -1 /\ probe = ProbeRv

checkfor ==
    /\ pc = "checkfor"
    /\ IF checkforPasses
          THEN pc' = "scan" /\ exc' = exc
          ELSE pc' = "done" /\ exc' = "SystemExit1"
    /\ UNCHANGED <<env, clock, times, run, outdirs, made, idx, pairs, count,
                   items, work, completed,
                   written, stamped, log>>

\* Mutant of exists: no output directory is ever found.
existsNever(path) == FALSE

\* exists(path + sep + outdir), the output directory being known by its parent.
exists(path) == path \in outdirs

\* One iteration of "for path in args.path".
Scan ==
    /\ pc = "scan"
    /\ idx <= Len(argpath)
    /\ LET path == argpath[idx] IN
         IF exists(path)
            THEN UNCHANGED <<pairs, count>>
            ELSE \E files \in Orders({e.name : e \in {x \in content[path] : Accepted(x)}}) :
                    /\ count' = count + Len(files)
                    /\ pairs' = Append(pairs, <<path, files>>)
    /\ idx' = idx + 1
    /\ UNCHANGED <<env, clock, times, run, outdirs, made, pc, exc, items, work,
                   completed, written,
                   stamped, log>>

\* What main() takes as "nothing to do" once the scan loop has ended.
NothingToDo == Len(pairs) = 0

ScanEnd ==
    /\ pc = "scan"
    /\ idx > Len(argpath)
    /\ IF NothingToDo
          THEN pc' = "done"
          ELSE pc' = "mkdir"
    /\ idx' = 1
    /\ UNCHANGED <<env, clock, times, run, outdirs, made, exc, pairs, count,
                   items, work, completed,
                   written, stamped, log>>

\* Mutant of MkdirsFinished: the pool is entered once the first mkdir is done.
MkdirsFinishedAfterFirst == idx > 1

\* The loop "for dirname, _ in pairs: mkdir(...)" has run to its end.
MkdirsFinished == idx > Len(pairs)

\* One iteration of the mkdir loop; mkdir raises FileExistsError on an existing directory.
Mkdir ==
    /\ pc = "mkdir"
    /\ idx <= Len(pairs)
    /\ LET dirname == pairs[idx][1] IN
         IF exists(dirname)
            THEN /\ pc' = "done"
                 /\ exc' = "FileExistsError"
                 /\ UNCHANGED <<outdirs, made, idx>>
            ELSE /\ outdirs' = outdirs \cup {dirname}
                 /\ made' = made \cup {dirname}
                 /\ idx' = idx + 1
                 /\ UNCHANGED <<pc, exc>>
    /\ UNCHANGED <<env, clock, times, run, pairs, count, items, work, completed,
                   written, stamped, log>>

\* agen: (p, fn) for p, flist in pairs for fn in flist, flattened.
RECURSIVE agen(_)
agen(ps) ==
    IF ps = <<>> THEN <<>>
    ELSE [k \in 1..Len(ps[1][2]) |-> [path |-> ps[1][1], name |-> ps[1][2][k]]]
         \o agen(Tail(ps))

Queued ==
    [phase |-> "queued", decodable |-> FALSE, rc |-> -1, ret |-> <<>>,
     tag |-> "", dt |-> <<>>, calls |-> 0, utimed |-> FALSE]

\* tp.map(processfile, agen) submits one future per item, in order.
Submit ==
    /\ pc = "mkdir"
    /\ MkdirsFinished
    /\ items' = agen(pairs)
    /\ work' = [k \in 1..Len(agen(pairs)) |-> Queued]
    /\ pc' = "collect"
    /\ idx' = 1
    /\ UNCHANGED <<env, clock, times, run, outdirs, made, exc, pairs, count,
                   completed, written, stamped, log>>

\* ---------------------------------------------------------- processfile()
Running(i) == work[i].phase \in {"opened", "converted"}

Finished(i) == work[i].phase \in {"returned", "raised"}

\* A pool thread is free and i is the oldest item still in the work queue.
CanStart(i) ==
    /\ work[i].phase = "queued"
    /\ \A j \in 1..(i - 1) : work[j].phase # "queued"
    /\ Cardinality({j \in 1..Len(items) : Running(j)}) < PoolSize

\* Image.open(fname) succeeds on a file whose content is an image.
Decodable(path, name) == \E e \in content[path] : e.name = name /\ e.image

\* What the try block of processfile meets in the file of an item.
MetaOf(path, name) ==
    LET e == CHOOSE x \in content[path] : x.name = name
    IN  IF e.image THEN e.meta ELSE Unreadable

\* available[0] where the try block gets that far, else "".
SelectedOrNone(m) ==
    IF m.kind = "exif" /\ available(m.ld) # <<>> THEN Selected(m.ld) ELSE ""

\* A pool thread takes item i and runs the try block: Image.open and the EXIF
\* lookup either succeed or raise, and "except Exception" absorbs the latter,
\* taking datetime.today() instead.  The program reads the clock nowhere else:
\* each call finds it one tick after the call before.
ProcOpen(i) ==
    /\ pc \in {"collect", "shutdown"}
    /\ CanStart(i)
    /\ work' = [work EXCEPT ![i] =
                   [@ EXCEPT !.phase = "opened",
                             !.decodable = Decodable(items[i].path, items[i].name),
                             !.tag = SelectedOrNone(MetaOf(items[i].path, items[i].name)),
                             !.dt = ResolveDt(MetaOf(items[i].path, items[i].name),
                                              TodayAt(clock))]]
    /\ clock' = clock + 1
    /\ UNCHANGED <<env, times, run, outdirs, made, pc, exc, idx, pairs, count,
                   items, completed, written, stamped, log>>

\* What processfile returns when convert exits with rp # 0.
ToolErrorResult(i) == <<items[i].name, StatusToolError>>

\* What processfile returns after utime.
SuccessResult(i) == <<fnameOf(items[i].path, items[i].name), StatusOk>>

\* Mutant of ToolFailed: the exit status is not looked at.
ToolFailedNever(rp) == FALSE

\* if rp != 0
ToolFailed(rp) == rp # 0

\* The file at path o has both its times set to t.
SetTimes(o, t) ==
    [q \in DOMAIN times \cup {o} |->
        IF q = o THEN [atime |-> t, mtime |-> t] ELSE times[q]]

\* rp = subprocess.call(['convert', fname, ..., oname]); if rp != 0: return (name, 2).
\* subprocess.call raises OSError when the binary cannot be executed.
ProcConvert(i) ==
    /\ work[i].phase = "opened"
    /\ IF convertOk
          THEN /\ written' = written \cup {onameOf(items[i].path, items[i].name)}
               /\ \E rp \in {0, 1} :
                     IF ToolFailed(rp)
                        THEN /\ work' = [work EXCEPT ![i] =
                                    [@ EXCEPT !.phase = "returned", !.rc = rp,
                                              !.calls = @ + 1,
                                              !.ret = ToolErrorResult(i)]]
                             /\ completed' = Append(completed, i)
                        ELSE /\ work' = [work EXCEPT ![i] =
                                    [@ EXCEPT !.phase = "converted", !.rc = rp,
                                              !.calls = @ + 1]]
                             /\ completed' = completed
          ELSE /\ work' = [work EXCEPT ![i] = [@ EXCEPT !.phase = "raised", !.calls = @ + 1]]
               /\ completed' = Append(completed, i)
               /\ written' = written
    /\ UNCHANGED <<env, clock, times, run, outdirs, made, pc, exc, idx, pairs, count,
                   items, stamped, log>>

\* modtime = mktime((dt.year, ..., dt.second, 0, 0, -1)) of item i.
modtimeOf(i) == mktime(work[i].dt)

\* modtime = mktime(...); utime(oname, (modtime, modtime)); return (fname, 0).
\* mktime raises OverflowError on a date it cannot represent and utime raises
\* OSError when oname is not there; neither is caught.
ProcUtime(i) ==
    /\ work[i].phase = "converted"
    /\ \E ok \in BOOLEAN :
          IF ok
             THEN /\ stamped' = stamped \cup {onameOf(items[i].path, items[i].name)}
                  /\ times' = SetTimes(onameOf(items[i].path, items[i].name), modtimeOf(i))
                  /\ work' = [work EXCEPT ![i] =
                                 [@ EXCEPT !.phase = "returned", !.utimed = TRUE,
                                           !.ret = SuccessResult(i)]]
             ELSE /\ stamped' = stamped
                  /\ times' = times
                  /\ work' = [work EXCEPT ![i] = [@ EXCEPT !.phase = "raised"]]
    /\ completed' = Append(completed, i)
    /\ UNCHANGED <<env, clock, run, outdirs, made, pc, exc, idx, pairs, count, items,
                   written, log>>

\* ---------------------------------------------- main(): the result loop
Logged == {log[k].item : k \in 1..Len(log)}

\* Mutant of Awaited: results are handed out as they complete (as_completed).
AwaitedAsCompleted(i) == i \notin Logged

\* The future whose result tp.map's iterator hands out next: the idx-th submitted.
Awaited(i) == i = idx

\* One iteration of "for fn, rv in tp.map(...)": wait for the awaited future, then
\* log its line, or re-raise its exception (the iterator cancels what is still queued).
Collect(i) ==
    /\ pc = "collect"
    /\ idx <= Len(items)
    /\ Awaited(i)
    /\ Finished(i)
    /\ IF work[i].phase = "returned"
          THEN /\ log' = Append(log, [item |-> i, fn |-> work[i].ret[1], rv |-> work[i].ret[2]])
               /\ idx' = idx + 1
               /\ UNCHANGED <<pc, exc, work>>
          ELSE /\ pc' = "shutdown"
               /\ exc' = "WorkerException"
               /\ work' = [k \in 1..Len(work) |->
                              IF work[k].phase = "queued"
                                 THEN [work[k] EXCEPT !.phase = "cancelled"]
                                 ELSE work[k]]
               /\ UNCHANGED <<log, idx>>
    /\ UNCHANGED <<env, clock, times, run, outdirs, made, pairs, count, items,
                   completed, written, stamped>>

\* The iterator is exhausted; the with block ends and main() returns.
CollectEnd ==
    /\ pc = "collect"
    /\ idx > Len(items)
    /\ pc' = "done"
    /\ UNCHANGED <<env, clock, times, run, outdirs, made, exc, idx, pairs,
                   count, items, work, completed,
                   written, stamped, log>>

\* The with block's shutdown(wait=True) lets the running calls end, then the
\* exception leaves main().
Shutdown ==
    /\ pc = "shutdown"
    /\ \A j \in 1..Len(items) : ~Running(j)
    /\ pc' = "done"
    /\ UNCHANGED <<env, clock, times, run, outdirs, made, exc, idx, pairs,
                   count, items, work, completed,
                   written, stamped, log>>

\* main() is run again with the same arguments on the file system the last run
\* left, at a time after every clock reading of that run.
Rerun ==
    /\ pc = "done"
    /\ run < MaxRuns
    /\ run' = run + 1
    /\ pc' = "parse"
    /\ exc' = "none"
    /\ idx' = 1
    /\ pairs' = <<>>
    /\ count' = 0
    /\ items' = <<>>
    /\ work' = <<>>
    /\ completed' = <<>>
    /\ log' = <<>>
    /\ made' = {}
    /\ clock' = run * MaxEntries
    /\ UNCHANGED <<env, outdirs, written, stamped, times>>

Workers == \E i \in 1..Len(items) : ProcOpen(i) \/ ProcConvert(i) \/ ProcUtime(i)

Collector == \E i \in 1..Len(items) : Collect(i)

Next ==
    \/ ParseArgs
    \/ checkfor
    \/ Scan
    \/ ScanEnd
    \/ Mkdir
    \/ Submit
    \/ Workers
    \/ Collector
    \/ CollectEnd
    \/ Shutdown
    \/ Rerun

Spec == Init /\ [][Next]_vars

\* The metadata runs: both directories hold one photo, with the same metadata,
\* drawn from all the metadata maps considered.
InitMeta ==
    /\ argpath = <<"a", "b">>
    /\ \E m \in MetaInputs : content = [d \in Dirs |-> {Photo(m)}]
    /\ outdirs = {}
    /\ made = {}
    /\ probe = ProbeRv
    /\ convertOk = TRUE
    /\ pc = "parse"
    /\ exc = "none"
    /\ idx = 1
    /\ pairs = <<>>
    /\ count = 0
    /\ items = <<>>
    /\ work = <<>>
    /\ completed = <<>>
    /\ written = {}
    /\ stamped = {}
    /\ log = <<>>
    /\ clock = 0
    /\ times = <<>>
    /\ run = 1

SpecMeta == InitMeta /\ [][Next]_vars

\* The scan runs: larger directories, followed up to the dispatch.
InitScan ==
    /\ argpath \in PathLists
    /\ content \in ScanFileSystems
    /\ \A d \in Dirs \ Named(argpath) : content[d] = {}
    /\ outdirs \in SUBSET Named(argpath)
    /\ made = {}
    /\ probe = ProbeRv
    /\ convertOk = TRUE
    /\ pc = "parse"
    /\ exc = "none"
    /\ idx = 1
    /\ pairs = <<>>
    /\ count = 0
    /\ items = <<>>
    /\ work = <<>>
    /\ completed = <<>>
    /\ written = {}
    /\ stamped = {}
    /\ log = <<>>
    /\ clock = 0
    /\ times = <<>>
    /\ run = 1

NextScan ==
    \/ ParseArgs
    \/ checkfor
    \/ Scan
    \/ ScanEnd
    \/ Mkdir
    \/ Submit

SpecScan == InitScan /\ [][NextScan]_vars

\* The runs followed to their end: one directory is named, the probe passes.
InitFair ==
    /\ Init
    /\ Len(argpath) = 1
    /\ probe = ProbeRv

\* The pool threads and main() keep running while they can.
FairSpec == InitFair /\ [][Next]_vars /\ WF_vars(Next)

TypeOK ==
    /\ pc \in {"parse", "checkfor", "scan", "mkdir", "collect", "shutdown", "done"}
    /\ exc \in {"none", "SystemExit0", "SystemExit1", "FileExistsError", "WorkerException"}
    /\ Len(work) = Len(items)
    /\ made \subseteq outdirs
    /\ run \in 1..MaxRuns

\* ------------------------------------------------------------- properties
\* Position of x in the sequence seq that holds it.
Pos(seq, x) == CHOOSE k \in 1..Len(seq) : seq[k] = x

ItemIds == 1..Len(items)

\* Lines of the log that report item i.
LinesOf(i) == {k \in 1..Len(log) : log[k].item = i}

\* Directories whose path/foto4lb was there before the run.
PreExisting == outdirs \ made

\* main() has ended after passing the argument check and the probe.
RunEnded == pc = "done" /\ Len(argpath) > 0 /\ checkforPasses

\* C1: every dispatched WorkItem yields exactly one result line that the
\* Coordinator consumes, whichever step of processfile fails: no call of
\* processfile ends in an uncaught exception and, when main() has ended, each
\* item has exactly one line in the log.
C1_EveryItemYieldsOneResult ==
    /\ \A i \in ItemIds : work[i].phase # "raised"
    /\ pc = "done" => \A i \in ItemIds : Cardinality(LinesOf(i)) = 1

\* C2 as stated: result lines are logged in completion order: if i was submitted
\* before j and j's call ended before i's, j's line is logged before i's line.
C2_LoggedInCompletionOrder ==
    \A i, j \in Logged :
        (i < j /\ Pos(completed, j) < Pos(completed, i))
            => Pos([k \in 1..Len(log) |-> log[k].item], j)
                   < Pos([k \in 1..Len(log) |-> log[k].item], i)

\* C2 amended: result lines are logged in submission order: the k-th line of the
\* log reports the k-th submitted item, whatever the order of completion.
C2_LoggedInSubmissionOrder == \A k \in 1..Len(log) : log[k].item = k

\* C2 witness: two items are both logged and the later submitted one ended first.
C2_OvertakenAndLogged ==
    \E i, j \in Logged : i < j /\ Pos(completed, j) < Pos(completed, i)

\* C3: no two WorkItems of one batch have the same output path.
C3_DistinctOutputPaths ==
    \A i, j \in ItemIds :
        i # j => onameOf(items[i].path, items[i].name) # onameOf(items[j].path, items[j].name)

\* C4: when the scan has found no file at all, no output directory is ever
\* created and the pool is never entered.
C4_NoFilesNothingCreated ==
    (pc \notin {"parse", "checkfor", "scan"} /\ count = 0)
        => (made = {} /\ pc \notin {"collect", "shutdown"})

\* C5: the directory-creation phase never fails, and once it is over exactly the
\* scanned directories have an output directory made by this run.
C5_MkdirPhaseCompletes ==
    /\ exc # "FileExistsError"
    /\ pc \in {"collect", "shutdown"} => made = {pairs[k][1] : k \in 1..Len(pairs)}

\* C6: no Worker has started, and convert has been handed no output path, unless
\* the output directory of every scanned directory has been created.
C6_MkdirsBeforeDispatch ==
    ((\E i \in ItemIds : work[i].phase \notin {"queued", "cancelled"}) \/ written # {})
        => \A k \in 1..Len(pairs) : pairs[k][1] \in made

\* C6 witness: a Worker is running while two directories were scanned.
C6_WorkerRunningTwoDirs ==
    /\ \E i \in ItemIds : Running(i)
    /\ Cardinality({pairs[k][1] : k \in 1..Len(pairs)}) >= 2

\* C7: an item whose file is not a decodable image is reported with status 1.
C7_UndecodableReportedNotImage ==
    \A k \in 1..Len(log) :
        ~Decodable(items[log[k].item].path, items[log[k].item].name)
            => log[k].rv = StatusNotImage

\* C8: when the tool the Workers invoke cannot be executed, the probe ends the
\* program with exit status 1 before any scan, mkdir or dispatch.
C8_ProbeDetectsMissingTool ==
    (~convertOk /\ Len(argpath) > 0 /\ pc \notin {"parse", "checkfor"})
        => (exc = "SystemExit1" /\ pairs = <<>> /\ made = {} /\ items = <<>>)

\* C9: a directory with a pre-existing output directory contributes no item and
\* nothing is written in it, and when main() has ended every accepted file of
\* every other requested directory has been dispatched.
C9_SkipOnlyThatDirectory ==
    /\ \A d \in PreExisting :
          /\ \A i \in ItemIds : items[i].path # d
          /\ \A o \in written : o[1] # d
    /\ (RunEnded /\ PreExisting # {}) =>
          \A d \in Named(argpath) \ PreExisting :
              \A e \in {x \in content[d] : Accepted(x)} :
                  \E i \in ItemIds : items[i].path = d /\ items[i].name = e.name

\* C10: when main() has ended and convert exited non-zero for some item, every
\* item has exactly one line in the log, and the line of an item whose convert
\* exited non-zero carries status 2.
C10_ToolErrorsStayLocal ==
    (pc = "done" /\ \E i \in ItemIds : work[i].rc > 0)
        => \A i \in ItemIds :
              /\ Cardinality(LinesOf(i)) = 1
              /\ work[i].rc > 0 => \A k \in LinesOf(i) : log[k].rv = StatusToolError

\* C11: an item whose convert exited non-zero has returned status 2 and its
\* worker has not called utime; a worker has called utime only after exit status
\* 0; and every step that changes the times of an output path is the utime of a
\* worker whose convert exited 0, on the output path of its item alone.
C11_UtimeOnlyAfterZeroExit ==
    /\ [](\A i \in ItemIds :
            /\ work[i].rc > 0 =>
                   /\ work[i].phase = "returned"
                   /\ work[i].ret[2] = StatusToolError
                   /\ ~work[i].utimed
            /\ work[i].utimed => work[i].rc = 0)
    /\ [][times' # times =>
            \E i \in ItemIds :
                /\ work[i].rc = 0
                /\ ~work[i].utimed
                /\ work'[i].utimed
                /\ \A q \in DOMAIN times :
                       q # onameOf(items[i].path, items[i].name) =>
                           q \in DOMAIN times' /\ times'[q] = times[q]
                /\ DOMAIN times' =
                       DOMAIN times \cup {onameOf(items[i].path, items[i].name)}]_vars

\* One convert has exited non-zero and another item's output has been given its times.
C11_ToolErrorBesideSuccess ==
    \E i, j \in ItemIds :
        /\ work[i].rc > 0
        /\ work[i].phase = "returned"
        /\ work[j].utimed

\* C12: when main() has ended, convert has been invoked exactly once for every
\* dispatched item, whatever the try block met in its file, and the status of a
\* returned item is decided by the exit status of convert alone.
C12_ToolInvokedOncePerItem ==
    pc = "done" =>
        \A i \in ItemIds :
            /\ work[i].calls = 1
            /\ work[i].phase = "returned" =>
                   work[i].ret[2] = (IF work[i].rc = 0 THEN StatusOk ELSE StatusToolError)

\* C13: with every step that can be taken eventually taken, a first run in which
\* convert can be executed (every call of it returns an exit status) eventually
\* ends with exactly one line in the log for every dispatched item.
C13_TerminatesAllReported ==
    (convertOk /\ run = 1) =>
        <>(run = 1 /\ pc = "done" /\ \A i \in ItemIds : Cardinality(LinesOf(i)) = 1)

\* Output files and time records below directory d.
Below(d) ==
    <<{o \in written : o[1] = d}, {o \in stamped : o[1] = d},
      [o \in {q \in DOMAIN times : q[1] = d} |-> times[o]]>>

\* C14: in a run that finds the output directory of d already there (as every
\* run after one that created it does), d contributes no pair and no item, the
\* run leaves the output directory and everything below d as it found them, and
\* a run all of whose directories are such ends without an exception.
C14_SecondRunSkips ==
    /\ [](\A d \in PreExisting :
            /\ \A k \in 1..Len(pairs) : pairs[k][1] # d
            /\ \A i \in ItemIds : items[i].path # d)
    /\ []((RunEnded /\ Named(argpath) \subseteq PreExisting) =>
            (exc = "none" /\ items = <<>> /\ made = {}))
    /\ [][run' = run =>
            \A d \in PreExisting : d \in outdirs' /\ Below(d)' = Below(d)]_vars

\* A second run has ended on a directory in which the first run made the output
\* directory and wrote an output file.
C14_SecondRunAfterWork ==
    /\ run = 2
    /\ pc = "done"
    /\ \E d \in PreExisting : Below(d)[1] # {} /\ {e \in content[d] : Accepted(e)} # {}

\* The metadata the try block meets in the file of item i.
MetaOfItem(i) == MetaOf(items[i].path, items[i].name)

\* Item i has been taken by a pool thread.
Started(i) == work[i].phase \notin {"queued", "cancelled"}

\* The candidate tag that comes first in lexicographic order, written out:
\* CreateDate < DateTime < DateTimeDigitized < DateTimeOriginal.
SmallestCandidate(K) ==
    IF "CreateDate" \in K THEN "CreateDate"
    ELSE IF "DateTime" \in K THEN "DateTime"
    ELSE IF "DateTimeDigitized" \in K THEN "DateTimeDigitized"
    ELSE "DateTimeOriginal"

\* C15: for a metadata map with at least one of the four candidate tags, the
\* tag processfile selects is the lexicographically smallest candidate present,
\* whatever the order of the items of the map, and two calls on the same map
\* select the same tag.
C15_SmallestCandidateSelected ==
    /\ \A i \in ItemIds :
          (Started(i) /\ MetaOfItem(i).kind = "exif"
                      /\ want \cap Keys(MetaOfItem(i).ld) # {})
              => work[i].tag = SmallestCandidate(Keys(MetaOfItem(i).ld))
    /\ \A i, j \in ItemIds :
          (Started(i) /\ Started(j) /\ MetaOfItem(i) = MetaOfItem(j))
              => work[i].tag = work[j].tag

\* Two calls have selected DateTime from a map that lists DateTimeOriginal first.
C15_SelectedAgainstKeyOrder ==
    \E i, j \in ItemIds :
        /\ i # j
        /\ Started(i) /\ Started(j)
        /\ MetaOfItem(i) = MetaOfItem(j)
        /\ MetaOfItem(i).kind = "exif"
        /\ Len(MetaOfItem(i).ld) = 2
        /\ MetaOfItem(i).ld[1][1] = "DateTimeOriginal"
        /\ MetaOfItem(i).ld[2][1] = "DateTime"
        /\ work[i].tag = "DateTime"
        /\ work[j].tag = "DateTime"

\* The file of item i gives the try block no candidate tag: it does not open,
\* it has no EXIF data, or its EXIF data has none of the four tags.
NoCandidate(i) ==
    \/ MetaOfItem(i).kind # "exif"
    \/ want \cap Keys(MetaOfItem(i).ld) = {}

\* C16: when a pool thread takes an item whose file gives no candidate tag, the
\* call does not raise, the timestamp it resolves is, to the second, the clock
\* reading of that moment, and the call goes on to invoke convert.
C16_NoCandidateTakesCurrentTime ==
    /\ [][\A i \in ItemIds :
            (run' = run /\ work[i].phase = "queued" /\ Started(i)' /\ NoCandidate(i))
                => /\ work'[i].phase = "opened"
                   /\ mktime(work'[i].dt) = mktime(TodayAt(clock))]_vars
    /\ [](\A i \in ItemIds :
            (NoCandidate(i) /\ Finished(i)) => work[i].calls = 1)

\* An item whose EXIF data has tags but no candidate has been through convert,
\* its timestamp taken from a clock reading with a fraction of a second.
C16_FallbackWithMicroseconds ==
    \E i \in ItemIds :
        /\ MetaOfItem(i).kind = "exif"
        /\ MetaOfItem(i).ld # <<>>
        /\ NoCandidate(i)
        /\ Finished(i)
        /\ work[i].dt[7] # 0
        /\ work[i].calls = 1

\* C17: once the worker of an item whose convert exited 0 has called utime, the
\* access time and the modification time of the item's output file are both the
\* item's resolved timestamp, in whole seconds, whatever else has run since.
C17_OutputTimesAreResolvedTimestamp ==
    \A i \in ItemIds :
        (work[i].rc = 0 /\ work[i].utimed) =>
            LET o == onameOf(items[i].path, items[i].name) IN
                /\ o \in DOMAIN times
                /\ times[o].atime = modtimeOf(i)
                /\ times[o].mtime = modtimeOf(i)

\* Character c is letter x in either case.
SameLetter(c, x) ==
    \/ c = x
    \/ <<c, x>> \in {<<"J", "j">>, <<"P", "p">>, <<"G", "g">>, <<"E", "e">>,
                     <<"R", "r">>, <<"A", "a">>, <<"W", "w">>}

\* The name ends in ext, case ignored.
EndsIn(name, ext) ==
    /\ Len(name) >= Len(ext)
    /\ \A k \in 1..Len(ext) : SameLetter(name[Len(name) - Len(ext) + k], ext[k])

\* Names of the regular files of directory d that end in .jpg, .jpeg or .raw.
Matching(d) ==
    {e.name : e \in {x \in content[d] :
        /\ x.isFile
        /\ \/ EndsIn(x.name, <<".", "j", "p", "g">>)
           \/ EndsIn(x.name, <<".", "j", "p", "e", "g">>)
           \/ EndsIn(x.name, <<".", "r", "a", "w">>)}}

\* C18: once main() has submitted the items or has ended, the items of every
\* named directory that was not skipped are exactly its regular files whose
\* lowercased name ends in .jpg, .jpeg or .raw, each once, and no item belongs
\* to another directory.
C18_DispatchedAreTheMatchingFiles ==
    (pc \in {"collect", "done"} /\ Len(argpath) > 0 /\ checkforPasses) =>
        /\ \A i \in ItemIds : items[i].path \in Named(argpath) \ PreExisting
        /\ \A d \in Named(argpath) \ PreExisting :
              LET of == {i \in ItemIds : items[i].path = d}
              IN  /\ {items[i].name : i \in of} = Matching(d)
                  /\ Cardinality(of) = Cardinality(Matching(d))

\* C19: at no time are more than PoolSize items being executed, and when
\* main() has ended every submitted item has been started.
C19_BoundedPoolStartsEveryItem ==
    /\ Cardinality({i \in ItemIds : Running(i)}) <= PoolSize
    /\ pc = "done" => \A i \in ItemIds : Started(i)

\* C20: the identifier in every logged result is formed from the item in one
\* way, whatever the status: it is the input file name fname of the item in
\* every line, or the bare name of the item in every line.
C20_IdentifierSameForEveryStatus ==
    \/ \A k \in 1..Len(log) :
          log[k].fn = fnameOf(items[log[k].item].path, items[log[k].item].name)
    \/ \A k \in 1..Len(log) : log[k].fn = items[log[k].item].name

====
